---- MODULE Spec2Model ----
(***************************************************************************)
(* A model of the wrap-key ceremonies of yubihsm-split (src/src/lib.rs):    *)
(* initialize (with its auth-key rotation, personalize) and restore, run    *)
(* one invocation at a time against an HSM, an output directory, the        *)
(* operator's terminal and the process's memory.                            *)
(***************************************************************************)
EXTENDS Integers, Sequences, FiniteSets, TLC

VARIABLES
    pc,          \* position of the running invocation ("idle" between invocations)
    ceremony,    \* "none", "initialize", "restore", "generate" or "ca_init"
    result,      \* "none", "ok", "err" (Err returned), "exit1" (process::exit(1)), "panic" (unwrap)
    runs,        \* number of invocations started so far
    hsm,         \* object inventory of the device behind `client`
    hsm0,        \* the inventory when the running invocation started
    files,       \* out_dir: file name -> content
    files0,      \* out_dir when the running invocation started
    wrap_key,    \* the local `wrap_key` buffer of initialize / restore
    password,    \* the local `password` buffer of personalize
    residue,     \* passwords left in memory by buffers released without being zeroed
    shares,      \* the local `shares` of initialize (the ShareSet)
    share_num,   \* index of the share the display loop is at
    screen,      \* shares visible on the terminal since the last clear_screen
    displayed,   \* the share numbers printed by initialize, in order
    acks,        \* lines consumed by wait_for_line in the display loop of initialize
    entered,     \* the local `shares` of restore (lines read so far)
    prompts,     \* the numbers of the "Enter share[i]" prompts printed by restore
    recovered,   \* the arguments of every recover_secret call of the invocation
    events,      \* HSM client and file-system calls of the invocation, in order
    mismatches,  \* mismatched password pairs entered in the invocation
    issued,      \* the last ShareSet generated, with the key the HSM installed for it
    recorded,    \* the shares the custodians have seen on screen so far
    pair,        \* the two entries of the last pair of password prompts of personalize
    doc,         \* the document in the key_spec file of generate / ca_init
    spec,        \* the local `spec` of generate / ca_init
    tree,        \* out: label -> the entries of the CA directory of that label
    tree0,       \* the CA directories when the running invocation started
    connectors,  \* yubihsm-connector processes alive
    child,       \* the local `connector` of ca_init: "none", "running", "killed", "exited"
    cwd,         \* working directory of the process: "pwd" or "ca_dir"
    log          \* the diagnostic messages of the invocation (log crate macros)

vars == <<pc, ceremony, result, runs, hsm, hsm0, files, files0, wrap_key, password,
          residue, shares, share_num, screen, displayed, acks, entered,
          prompts, recovered, events, mismatches, issued, recorded, pair,
          doc, spec, tree, tree0, connectors, child, cwd, log>>

----------------------------------------------------------------------------
(* Bounds of the model *)

\* invocations (initialize / restore) in one behaviour
MaxRuns == 2
\* mismatched password pairs the operator enters in one rotation
MaxMismatch == 1
\* length of the wrap key in the model (KEY_LEN symbols instead of 32 bytes)
KeyLenBound == 1

\* the values the device's PRNG returns in the model (symbols of the field)
KeySymbols == {1, 5}
\* the values the splitter's random polynomial coefficients take in the model
CoeffValues == {0, 3}

----------------------------------------------------------------------------
(* Constants of lib.rs *)

ID == 1
KEY_LEN == KeyLenBound
LABEL == "backup"
SHARES == 5
THRESHOLD == 3
AUTH_ID == 2
AUTH_LABEL == "admin"
DEFAULT_AUTHENTICATION_KEY_ID == 1

\* an absent object, file or buffer is <<>>; a present one with value v is <<v>>
Absent == <<>>
\* a String after zeroize(): every byte overwritten, length 0
ZeroedString == ""
\* a Vec<u8> after zeroize(): every byte overwritten, length 0
ZeroedBytes == <<>>

\* passwords the operator may type
Passwords == {"pw_a", "pw_b"}

\* format!("{}.json", label): the file name of an exported artifact
JsonFile(label) == <<label, ".json">>

\* the file personalize writes: format!("{}.json", AUTH_LABEL)
AdminFile == JsonFile(AUTH_LABEL)

----------------------------------------------------------------------------
(* Key specifications, config.rs *)

\* object::Id is a u16
MaxId == 65535
\* Label::from_bytes accepts at most LABEL_SIZE bytes
LABEL_SIZE == 40

\* the fields of OksKeySpec: all required, none defaulted
SchemaFields == {"common_name", "id", "algorithm", "capabilities", "domain",
                 "hash", "label", "purpose"}

\* the variants of the declarative enums
OksAlgorithms == {"Rsa4096", "Ecp384"}
OksCapabilities == {"All"}
OksDomains == {"DOM1"}
Hashes == {"Sha256", "Sha384"}
Purposes == {"ProductionCodeSigningCA", "DevelopmentCodeSigningCA",
             "ProductionCodeSigning", "DevelopmentCodeSigning", "Identity"}

\* AlgorithmFrom with the two arms exchanged
AlgorithmFrom_Swapped(val) ==
    CASE val = "Rsa4096" -> "asymmetric::Algorithm::EcP384"
      [] val = "Ecp384" -> "asymmetric::Algorithm::Rsa4096"

\* impl From<OksAlgorithm> for asymmetric::Algorithm
AlgorithmFrom(val) ==
    CASE val = "Rsa4096" -> "asymmetric::Algorithm::Rsa4096"
      [] val = "Ecp384" -> "asymmetric::Algorithm::EcP384"

\* impl From<OksDomain> for Domain
DomainFrom(val) == CASE val = "DOM1" -> "Domain::DOM1"

\* impl From<OksCapability> for Capability
CapabilityFrom(val) == CASE val = "All" -> "Capability::all()"

\* impl ToString for Purpose
PurposeToString(purpose) ==
    CASE purpose = "ProductionCodeSigningCA" -> "v3_code_signing_prod_ca"
      [] purpose = "DevelopmentCodeSigningCA" -> "v3_code_signing_dev_ca"
      [] purpose = "ProductionCodeSigning" -> "v3_code_signing_prod"
      [] purpose = "DevelopmentCodeSigning" -> "v3_code_signing_dev"
      [] purpose = "Identity" -> "v3_identity"

\* a label as text: its characters and its length in bytes
Text(name, len) == [name |-> name, len |-> len]

\* impl TryInto<Label> for OksLabel: <<ok, Label>>; a Label is LABEL_SIZE
\* bytes, the text padded
LabelTryInto(label) ==
    IF label.len > LABEL_SIZE THEN <<FALSE, [name |-> "", size |-> 0]>>
    ELSE <<TRUE, [name |-> label.name, size |-> LABEL_SIZE]>>

\* a Label in format!("{}", ..): the text without the padding
LabelToString(label) == label.name

NoKeySpec == [common_name |-> "", id |-> 0, algorithm |-> "", capabilities |-> "",
              domain |-> "", hash |-> "", label |-> [name |-> "", size |-> 0],
              purpose |-> ""]

\* Deserialize as under #[serde(deny_unknown_fields)]
Deserialize_DenyUnknown(data) ==
    /\ data.fields = SchemaFields
    /\ data.id \in 0..MaxId
    /\ data.algorithm \in OksAlgorithms
    /\ data.capabilities \in OksCapabilities
    /\ data.domain \in OksDomains
    /\ data.hash \in Hashes
    /\ data.purpose \in Purposes

\* serde_json::from_str::<OksKeySpec>: every field of the schema must be
\* there with a value of its type; fields the schema does not name are skipped
Deserialize(data) ==
    /\ SchemaFields \subseteq data.fields
    /\ data.id \in 0..MaxId
    /\ data.algorithm \in OksAlgorithms
    /\ data.capabilities \in OksCapabilities
    /\ data.domain \in OksDomains
    /\ data.hash \in Hashes
    /\ data.purpose \in Purposes

\* KeySpecTryFrom cutting a label that is too long instead of refusing it
KeySpecTryFrom_Truncating(oks) ==
    <<TRUE,
      [common_name |-> oks.common_name,
       id |-> oks.id,
       algorithm |-> AlgorithmFrom(oks.algorithm),
       capabilities |-> CapabilityFrom(oks.capabilities),
       domain |-> DomainFrom(oks.domain),
       hash |-> oks.hash,
       label |-> [name |-> oks.label.name, size |-> LABEL_SIZE],
       purpose |-> oks.purpose],
      "">>

\* impl TryFrom<OksKeySpec> for KeySpec: <<ok, KeySpec, error>>
KeySpecTryFrom(oks) ==
    LET label == LabelTryInto(oks.label)
    IN IF ~label[1] THEN <<FALSE, NoKeySpec, "BadLabel">>
       ELSE <<TRUE,
              [common_name |-> oks.common_name,
               id |-> oks.id,
               algorithm |-> AlgorithmFrom(oks.algorithm),
               capabilities |-> CapabilityFrom(oks.capabilities),
               domain |-> DomainFrom(oks.domain),
               hash |-> oks.hash,
               label |-> label[2],
               purpose |-> oks.purpose],
              "">>

\* impl FromStr for KeySpec: <<ok, KeySpec, error>>
KeySpecFromStr(data) ==
    IF ~Deserialize(data) THEN <<FALSE, NoKeySpec, "BadKeySpec">>
    ELSE KeySpecTryFrom(data)

\* a key-specification document: the fields it has and their values
Doc(fields, cn, id, alg, caps, dom, hash, label, purpose) ==
    [fields |-> fields, common_name |-> cn, id |-> id, algorithm |-> alg,
     capabilities |-> caps, domain |-> dom, hash |-> hash, label |-> label,
     purpose |-> purpose]

\* the documents of the tests of config.rs, with every hash and purpose
RsaDoc(hash, purpose) ==
    Doc(SchemaFields, "Gimlet RoT Stage0 Code Signing Engineering Offline CA A", 1,
        "Rsa4096", "All", "DOM1", hash, Text("rot-stage0-signing-root-eng-a", 29),
        purpose)
EcpDoc(hash, purpose) ==
    Doc(SchemaFields, "RoT Identity Signing Offline CA", 2,
        "Ecp384", "All", "DOM1", hash, Text("rot-identity-signing-ca", 23), purpose)

JSON_RSA4K == RsaDoc("Sha256", "ProductionCodeSigning")

ValidDocs ==
    {RsaDoc(h, p) : h \in Hashes, p \in Purposes} \cup
    {EcpDoc(h, p) : h \in Hashes, p \in Purposes}

\* JSON_RSA4K with one more field, which the schema does not name
ExtraFieldDocs == {[JSON_RSA4K EXCEPT !.fields = @ \cup {"comment"}]}

\* JSON_RSA4K without one required field, with a value no enum has, with a
\* label of more than LABEL_SIZE bytes, with an id that is no u16
MalformedDocs ==
    {[JSON_RSA4K EXCEPT !.fields = @ \ {f}] : f \in SchemaFields} \cup
    {[JSON_RSA4K EXCEPT !.algorithm = "Rsa2048"],
     [JSON_RSA4K EXCEPT !.capabilities = "None"],
     [JSON_RSA4K EXCEPT !.domain = "DOM2"],
     [JSON_RSA4K EXCEPT !.hash = "Sha512"],
     [JSON_RSA4K EXCEPT !.purpose = "Signing"],
     [JSON_RSA4K EXCEPT !.label = Text("a-label-of-forty-one-bytes-is-one-too-long", LABEL_SIZE + 1)],
     [JSON_RSA4K EXCEPT !.id = MaxId + 1]}

\* the documents a key_spec file may hold
Docs == ValidDocs \cup ExtraFieldDocs \cup MalformedDocs

\* the artifacts of the output directory
FileNames ==
    {AdminFile} \cup {JsonFile(d.label.name) : d \in ValidDocs}

----------------------------------------------------------------------------
(* Threshold Secret Codec: rusty_secrets::generate_shares / recover_secret.  *)
(* The library is not part of the repository; it is modelled from the       *)
(* contract of the specification (section 4.2) as a Shamir scheme over the  *)
(* prime field of FieldOrder elements.                                      *)

\* the smallest prime above SHARES: every share number is a nonzero element
FieldOrder == SHARES + 2

\* a key: KEY_LEN symbols as the device's PRNG returns them
Keys == [1..KEY_LEN -> KeySymbols]

RECURSIVE Pow(_, _)
Pow(x, e) == IF e = 0 THEN 1 ELSE (x * Pow(x, e - 1)) % FieldOrder

RECURSIVE PolyTail(_, _, _)
\* c[1]*x + ... + c[j]*x^j
PolyTail(c, x, j) ==
    IF j = 0 THEN 0 ELSE (c[j] * Pow(x, j) + PolyTail(c, x, j - 1)) % FieldOrder

\* the value at x of the polynomial with constant term s and coefficients c
PolyEval(s, c, x) == (s + PolyTail(c, x, Len(c))) % FieldOrder

\* the multiplicative inverse of a nonzero element
FieldInv(a) == CHOOSE b \in 1..(FieldOrder - 1) : (a * b) % FieldOrder = 1

\* the random coefficient choices of one split: per key symbol, k-1
\* coefficients; in the model one draw of k-1 coefficients serves every symbol
CoeffChoices(k, len) ==
    {[b \in 1..len |-> tail] : tail \in [1..(k - 1) -> CoeffValues]}

\* a line of text as it reaches the codec: a share line "k-x-data" carries
\* its three parts, any other text carries none
ShareLine(k, x, y) == [text |-> "share", k |-> k, x |-> x, y |-> y]
TextLine(t) == [text |-> t, k |-> 0, x |-> 0, y |-> <<>>]
EmptyLine == TextLine("")
BlankLine == TextLine(" ")

\* split(secret, M, N) with the coefficient choice made explicit:
\* <<TRUE, ShareSet>> or <<FALSE, <<>>>> when M > N or M < 1
generate_shares(k, n, secret, coeffs) ==
    IF k > n \/ k < 1 THEN <<FALSE, <<>>>>
    ELSE <<TRUE,
           [i \in 1..n |->
              ShareLine(k, i,
                        [b \in 1..Len(secret) |-> PolyEval(secret[b], coeffs[b], i)])]>>

RECURSIVE LagrangeBasis(_, _, _)
\* prod over m in xs, m # xj, of (0 - m) / (xj - m)
LagrangeBasis(xj, xs, acc) ==
    IF xs = {} THEN acc
    ELSE LET m == CHOOSE e \in xs : TRUE
             f == IF m = xj THEN 1
                  ELSE (((FieldOrder - m) % FieldOrder)
                        * FieldInv((xj - m + FieldOrder) % FieldOrder)) % FieldOrder
         IN LagrangeBasis(xj, xs \ {m}, (acc * f) % FieldOrder)

RECURSIVE LagrangeSum(_, _, _, _)
\* the interpolated value at 0 of symbol b over the first j points
LagrangeSum(pts, xs, b, j) ==
    IF j = 0 THEN 0
    ELSE (pts[j].y[b] * LagrangeBasis(pts[j].x, xs, 1)
          + LagrangeSum(pts, xs, b, j - 1)) % FieldOrder

\* recover(shares): <<TRUE, secret>>, or <<FALSE, <<>>>> for a line that is no
\* share, a repeated share number, inconsistent thresholds or lengths, or
\* fewer shares than the threshold
recover_secret(lines) ==
    LET n == Len(lines)
        parsed == \A i \in 1..n : lines[i].text = "share" /\ lines[i].k >= 1
    IN IF n = 0 \/ ~parsed THEN <<FALSE, <<>>>>
       ELSE LET k == lines[1].k
                consistent == \A i \in 1..n :
                                 /\ lines[i].k = k
                                 /\ Len(lines[i].y) = Len(lines[1].y)
                distinct == \A i, j \in 1..n : i # j => lines[i].x # lines[j].x
            IN IF ~consistent \/ ~distinct \/ n < k THEN <<FALSE, <<>>>>
               ELSE LET xs == {lines[i].x : i \in 1..k}
                    IN <<TRUE, [b \in 1..Len(lines[1].y) |->
                                  LagrangeSum(lines, xs, b, k)]>>

----------------------------------------------------------------------------
(* The HSM client capability consumed by the ceremonies.  Every operation   *)
(* yields the set of its possible outcomes [ok, hsm]: it may fail with a    *)
(* device error and no effect, and succeeds only where the device allows.   *)

\* a device as shipped: the default authentication key only
FactoryHsm == [default |-> TRUE, auth |-> Absent, wrap |-> Absent, asym |-> {}]

Fails(h) == [ok |-> FALSE, hsm |-> h]
Succeeds(h) == [ok |-> TRUE, hsm |-> h]

\* Key::derive_from_password: a deterministic one-way derivation
derive_from_password(p) == [pbkdf2 |-> p]

\* client.put_wrap_key(ID, LABEL, ...): the id must be free
put_wrap_key(h, key) ==
    {Fails(h)} \cup
    (IF h.wrap = Absent THEN {Succeeds([h EXCEPT !.wrap = <<key>>])} ELSE {})

\* client.put_authentication_key(AUTH_ID, AUTH_LABEL, ...): the id must be free
put_authentication_key(h, key) ==
    {Fails(h)} \cup
    (IF h.auth = Absent THEN {Succeeds([h EXCEPT !.auth = <<key>>])} ELSE {})

\* client.delete_object(DEFAULT_AUTHENTICATION_KEY_ID, AuthenticationKey)
delete_object(h) ==
    {Fails(h)} \cup
    (IF h.default THEN {Succeeds([h EXCEPT !.default = FALSE])} ELSE {})

\* the wrapped message export_wrapped returns for the authentication key
Wrapped(h) == [under |-> h.wrap[1], object |-> h.auth[1]]

\* client.export_wrapped(wrap_id, AuthenticationKey, AUTH_ID): both must exist
export_wrapped(h) ==
    {Fails(h)} \cup
    (IF h.wrap # Absent /\ h.auth # Absent THEN {Succeeds(h)} ELSE {})

\* client.generate_asymmetric_key(spec.id, spec.label, spec.domain,
\*     spec.capabilities, spec.algorithm): the id must be free
generate_asymmetric_key(h, key_spec) ==
    {Fails(h)} \cup
    (IF \A o \in h.asym : o.id # key_spec.id
     THEN {Succeeds([h EXCEPT !.asym = @ \cup
                      {[id |-> key_spec.id, label |-> key_spec.label,
                        domain |-> key_spec.domain,
                        capabilities |-> key_spec.capabilities,
                        algorithm |-> key_spec.algorithm]}])}
     ELSE {})

\* the wrapped message export_wrapped returns for the asymmetric key id
WrappedAsym(h, id) ==
    [under |-> h.wrap[1], object |-> CHOOSE o \in h.asym : o.id = id]

\* client.export_wrapped(wrap_id, AsymmetricKey, id): both must exist
export_wrapped_asym(h, id) ==
    {Fails(h)} \cup
    (IF h.wrap # Absent /\ \E o \in h.asym : o.id = id THEN {Succeeds(h)} ELSE {})

----------------------------------------------------------------------------
(* State *)

NoFiles == [f \in FileNames |-> Absent]
\* no CA directory in `out`
NoTree == [l \in {d.label.name : d \in ValidDocs} |-> {}]
NoIssue == [made |-> FALSE, key |-> <<>>, shares |-> <<>>]

Init ==
    /\ pc = "idle"
    /\ ceremony = "none"
    /\ result = "none"
    /\ runs = 0
    /\ hsm = FactoryHsm
    /\ hsm0 = FactoryHsm
    /\ files = NoFiles
    /\ files0 = NoFiles
    /\ wrap_key = Absent
    /\ password = Absent
    /\ residue = {}
    /\ shares = <<>>
    /\ share_num = 0
    /\ screen = {}
    /\ displayed = <<>>
    /\ acks = 0
    /\ entered = <<>>
    /\ prompts = <<>>
    /\ recovered = <<>>
    /\ events = <<>>
    /\ mismatches = 0
    /\ issued = NoIssue
    /\ recorded = {}
    /\ pair = <<>>
    /\ doc = Absent
    /\ spec = Absent
    /\ tree = NoTree
    /\ tree0 = NoTree
    /\ connectors = 0
    /\ child = "none"
    /\ cwd = "pwd"
    /\ log = {}

\* the locals of generate / ca_init and the CA directories
KeyLocals == <<doc, spec>>
CaState == <<tree, connectors, child, cwd>>
\* what initialize and restore do not touch while they run
Env == <<runs, hsm0, files0, tree0, issued, KeyLocals, CaState>>
InitLocals == <<shares, share_num, screen, displayed, acks, recorded>>
PersLocals == <<password, residue, mismatches, pair>>
RestLocals == <<entered, prompts, recovered>>

Event(op, ok) == [op |-> op, ok |-> ok]

\* wrap_key.encode_hex::<String>(): the bytes, written in hexadecimal
encode_hex(bytes) == [hex |-> bytes]

\* a message of the log crate: its level, its format string, and the password
\* or the key bytes among its arguments, if any
Msg(level, text, pw, key) == [level |-> level, text |-> text, password |-> pw, key |-> key]
Debug(text) == Msg("debug", text, Absent, Absent)
Info(text) == Msg("info", text, Absent, Absent)
Warn(text) == Msg("warn", text, Absent, Absent)

\* the messages msgs are emitted when the step got as far as them
Emit(reached, msgs) == log' = IF reached THEN log \cup msgs ELSE log

\* the invocation ends: Err returned ("err"), Ok returned ("ok"),
\* process::exit(1) ("exit1") or a panic out of unwrap() ("panic")
Finish(res) == pc' = "done" /\ result' = res

\* a new process starts with fresh locals and an empty terminal
FreshLocals ==
    /\ result' = "none"
    /\ wrap_key' = Absent
    /\ password' = Absent
    /\ residue' = {}
    /\ shares' = <<>>
    /\ share_num' = 0
    /\ screen' = {}
    /\ displayed' = <<>>
    /\ acks' = 0
    /\ entered' = <<>>
    /\ prompts' = <<>>
    /\ recovered' = <<>>
    /\ events' = <<>>
    /\ mismatches' = 0
    /\ pair' = <<>>
    /\ doc' = Absent
    /\ spec' = Absent
    /\ child' = "none"
    /\ cwd' = "pwd"
    /\ log' = {}

\* the operator runs `initialize` against the device
StartInitialize ==
    /\ pc = "idle"
    /\ runs < MaxRuns
    /\ pc' = "init_random"
    /\ ceremony' = "initialize"
    /\ runs' = runs + 1
    /\ hsm0' = hsm
    /\ files0' = files
    /\ tree0' = tree
    /\ FreshLocals
    /\ UNCHANGED <<hsm, files, issued, recorded, tree, connectors>>

\* the process of the finished invocation is gone
Return ==
    /\ pc = "done"
    /\ pc' = "idle"
    /\ ceremony' = "none"
    /\ hsm0' = hsm
    /\ files0' = files
    /\ tree0' = tree
    /\ FreshLocals
    /\ UNCHANGED <<runs, hsm, files, issued, recorded, tree, connectors>>

\* the operator connects a factory-fresh device (the target of a restore)
FactoryReset ==
    /\ pc = "idle"
    /\ hsm # FactoryHsm
    /\ hsm' = FactoryHsm
    /\ hsm0' = FactoryHsm
    /\ UNCHANGED <<pc, ceremony, result, runs, files, files0, wrap_key,
                   password, residue, shares, share_num, screen, displayed, acks,
                   entered, prompts, recovered, events, mismatches, issued, recorded,
                   pair, KeyLocals, CaState, tree0, log>>

----------------------------------------------------------------------------
(* initialize, lib.rs 377-445 *)

\* InitGetRandom reporting the key itself at info level
InitGetRandom_KeyAtInfo ==
    /\ pc = "init_random"
    /\ \/ /\ events' = Append(events, Event("get_pseudo_random", FALSE))
          /\ Finish("err")
          /\ UNCHANGED <<wrap_key, log>>
       \/ \E key \in Keys :
            /\ events' = Append(events, Event("get_pseudo_random", TRUE))
            /\ wrap_key' = <<key>>
            /\ Emit(TRUE, {Debug("got {} bytes from YubiHSM PRNG"),
                           Msg("info", "got wrap key: {}", Absent, <<encode_hex(key)>>)})
            /\ pc' = "init_put_wrap"
            /\ UNCHANGED result
    /\ UNCHANGED <<ceremony, hsm, files, Env, InitLocals, PersLocals, RestLocals>>

\* let wrap_key = client.get_pseudo_random(KEY_LEN)?;
\* info!("got {} bytes from YubiHSM PRNG", wrap_key.len());
\* debug!("got wrap key: {}", wrap_key.encode_hex::<String>());
InitGetRandom ==
    /\ pc = "init_random"
    /\ \/ /\ events' = Append(events, Event("get_pseudo_random", FALSE))
          /\ Finish("err")
          /\ UNCHANGED <<wrap_key, log>>
       \/ \E key \in Keys :
            /\ events' = Append(events, Event("get_pseudo_random", TRUE))
            /\ wrap_key' = <<key>>
            /\ Emit(TRUE, {Info("got {} bytes from YubiHSM PRNG"),
                           Msg("debug", "got wrap key: {}", Absent, <<encode_hex(key)>>)})
            /\ pc' = "init_put_wrap"
            /\ UNCHANGED result
    /\ UNCHANGED <<ceremony, hsm, files, Env, InitLocals, PersLocals, RestLocals>>

\* InitPutWrapKey with the call of personalize left out
InitPutWrapKey_NoRotation ==
    /\ pc = "init_put_wrap"
    /\ \E o \in put_wrap_key(hsm, wrap_key[1]) :
         /\ hsm' = o.hsm
         /\ events' = Append(events, Event("put_wrap_key", o.ok))
         /\ Emit(o.ok, {Info("wrap id: {}")})
         /\ IF o.ok THEN pc' = "init_split" /\ UNCHANGED result
                    ELSE Finish("err")
    /\ UNCHANGED <<ceremony, files, wrap_key, Env, InitLocals, PersLocals, RestLocals>>

\* let id = client.put_wrap_key(ID, ..., wrap_key.clone()).with_context(..)?;
InitPutWrapKey ==
    /\ pc = "init_put_wrap"
    /\ \E o \in put_wrap_key(hsm, wrap_key[1]) :
         /\ hsm' = o.hsm
         /\ events' = Append(events, Event("put_wrap_key", o.ok))
         /\ Emit(o.ok, {Info("wrap id: {}"),
                         Debug("personalizing with wrap key {} and out_dir {}")})
         /\ IF o.ok THEN pc' = "pers_prompt" /\ UNCHANGED result
                    ELSE Finish("err")
    /\ UNCHANGED <<ceremony, files, wrap_key, Env, InitLocals, PersLocals, RestLocals>>

----------------------------------------------------------------------------
(* personalize, lib.rs 449-508: the auth-key rotation *)

\* let password = rpassword::prompt_password(PASSWD_PROMPT).unwrap();
PersPrompt1 ==
    /\ pc = "pers_prompt"
    /\ \/ /\ events' = Append(events, Event("prompt_password", FALSE))
          /\ Finish("panic")
          /\ UNCHANGED password
       \/ \E p \in Passwords :
            /\ password' = <<p>>
            /\ pc' = "pers_prompt2"
            /\ UNCHANGED <<result, events>>
    /\ UNCHANGED <<ceremony, hsm, files, wrap_key, residue, mismatches, pair,
                   Env, InitLocals, RestLocals, log>>

\* PersPrompt2 leaving the loop with the first entry whatever the second is
PersPrompt2_AcceptAny ==
    /\ pc = "pers_prompt2"
    /\ \/ /\ events' = Append(events, Event("prompt_password", FALSE))
          /\ Finish("panic")
          /\ UNCHANGED <<password, residue, mismatches, pair, log>>
       \/ \E p2 \in Passwords :
            /\ UNCHANGED events
            /\ pair' = <<password[1], p2>>
            /\ Emit(TRUE, {Msg("debug", "got the same password twice: {}", <<password[1]>>, Absent)})
            /\ pc' = "pers_put_auth"
            /\ UNCHANGED <<password, residue, mismatches, result>>
    /\ UNCHANGED <<ceremony, hsm, files, wrap_key, Env, InitLocals, RestLocals>>

\* let mut password2 = rpassword::prompt_password(PASSWD_PROMPT2).unwrap();
\* if password != password2 { error!(..) } else { password2.zeroize(); break password; }
PersPrompt2 ==
    /\ pc = "pers_prompt2"
    /\ \/ /\ events' = Append(events, Event("prompt_password", FALSE))
          /\ Finish("panic")
          /\ UNCHANGED <<password, residue, mismatches, pair, log>>
       \/ \E p2 \in Passwords :
            /\ UNCHANGED events
            /\ pair' = <<password[1], p2>>
            /\ IF password[1] # p2
               THEN \* both buffers of the pair are released as they are; loop
                    /\ mismatches < MaxMismatch
                    /\ residue' = residue \cup {password[1], p2}
                    /\ password' = Absent
                    /\ mismatches' = mismatches + 1
                    /\ Emit(TRUE, {Msg("error", "the passwords entered do not match",
                                       Absent, Absent)})
                    /\ pc' = "pers_prompt"
                    /\ UNCHANGED result
               ELSE /\ Emit(TRUE, {Msg("debug", "got the same password twice: {}", <<password[1]>>, Absent)})
                    /\ pc' = "pers_put_auth"
                    /\ UNCHANGED <<password, residue, mismatches, result>>
    /\ UNCHANGED <<ceremony, hsm, files, wrap_key, Env, InitLocals, RestLocals>>

\* let auth_key = Key::derive_from_password(password.as_bytes());
\* client.put_authentication_key(AUTH_ID, AUTH_LABEL.into(), ..., auth_key)?;
PersPutAuthKey ==
    /\ pc = "pers_put_auth"
    /\ \E o \in put_authentication_key(hsm, derive_from_password(password[1])) :
         /\ hsm' = o.hsm
         /\ events' = Append(events, Event("put_authentication_key", o.ok))
         /\ IF o.ok THEN pc' = "pers_delete" /\ UNCHANGED result
                    ELSE Finish("err")
    /\ Emit(TRUE, {Debug("putting new auth key from provided password")})
    /\ UNCHANGED <<ceremony, files, wrap_key, Env, InitLocals, PersLocals, RestLocals>>

\* PersDeleteDefault with the result of delete_object dropped instead of `?`
PersDeleteDefault_Ignored ==
    /\ pc = "pers_delete"
    /\ \E o \in delete_object(hsm) :
         /\ hsm' = o.hsm
         /\ events' = Append(events, Event("delete_object", o.ok))
         /\ pc' = "pers_export"
         /\ UNCHANGED result
    /\ Emit(TRUE, {Debug("deleting default auth key")})
    /\ UNCHANGED <<ceremony, files, wrap_key, Env, InitLocals, PersLocals, RestLocals>>

\* client.delete_object(DEFAULT_AUTHENTICATION_KEY_ID, Type::AuthenticationKey)?;
PersDeleteDefault ==
    /\ pc = "pers_delete"
    /\ \E o \in delete_object(hsm) :
         /\ hsm' = o.hsm
         /\ events' = Append(events, Event("delete_object", o.ok))
         /\ IF o.ok THEN pc' = "pers_export" /\ UNCHANGED result
                    ELSE Finish("err")
    /\ Emit(TRUE, {Debug("deleting default auth key")})
    /\ UNCHANGED <<ceremony, files, wrap_key, Env, InitLocals, PersLocals, RestLocals>>

\* let msg = client.export_wrapped(wrap_id, Type::AuthenticationKey, AUTH_ID)?;
PersExport ==
    /\ pc = "pers_export"
    /\ \E o \in export_wrapped(hsm) :
         /\ hsm' = o.hsm
         /\ events' = Append(events, Event("export_wrapped", o.ok))
         /\ IF o.ok THEN pc' = "pers_write" /\ UNCHANGED result
                    ELSE Finish("err")
    /\ Emit(TRUE, {Debug("exporting new auth key under wrap-key w/ id: {}")})
    /\ UNCHANGED <<ceremony, files, wrap_key, Env, InitLocals, PersLocals, RestLocals>>

\* let msg_json = serde_json::to_string(&msg)?;
\* fs::write(out_dir.join("admin.json"), msg_json)?;
\* password.zeroize(); Ok(())
PersWrite ==
    /\ pc = "pers_write"
    /\ \/ /\ events' = Append(events, Event("to_string", FALSE))
          /\ Finish("err")
          /\ UNCHANGED <<files, password>>
       \/ /\ events' = Append(events, Event("write", FALSE))
          /\ Finish("err")
          /\ UNCHANGED <<files, password>>
       \/ /\ events' = Append(events, Event("write", TRUE))
          /\ files' = [files EXCEPT ![AdminFile] = <<Wrapped(hsm)>>]
          /\ password' = <<ZeroedString>>
          /\ pc' = "init_split"
          /\ UNCHANGED result
    /\ Emit(events'[Len(events')].op = "write",
            {Debug("msg_json: {:#?}"), Debug("writing to: {}")})
    /\ UNCHANGED <<ceremony, hsm, wrap_key, residue, mismatches, pair, Env,
                   InitLocals, RestLocals>>

----------------------------------------------------------------------------
(* initialize, continued: split and the share display loop *)

\* InitSplit splitting other bytes than the ones installed
InitSplit_OtherSecret ==
    /\ pc = "init_split"
    /\ \E other \in Keys \ {wrap_key[1]} :
       \E coeffs \in CoeffChoices(THRESHOLD, Len(other)) :
         LET g == generate_shares(THRESHOLD, SHARES, other, coeffs)
         IN /\ events' = Append(events, Event("generate_shares", g[1]))
            /\ IF g[1]
               THEN /\ shares' = g[2]
                    /\ issued' = [made |-> TRUE, key |-> hsm.wrap[1], shares |-> g[2]]
                    /\ recorded' = {}
                    /\ pc' = "init_begin"
                    /\ UNCHANGED result
               ELSE /\ Finish("err")
                    /\ UNCHANGED <<shares, issued, recorded>>
    /\ UNCHANGED <<ceremony, runs, hsm, hsm0, files, files0, wrap_key, share_num,
                   screen, displayed, acks, PersLocals, RestLocals, KeyLocals,
                   CaState, tree0, log>>

\* let shares = rusty_secrets::generate_shares(THRESHOLD, SHARES, &wrap_key)
\*     .with_context(..)?;  println!("WARNING: ...");
InitSplit ==
    /\ pc = "init_split"
    /\ \E coeffs \in CoeffChoices(THRESHOLD, Len(wrap_key[1])) :
         LET g == generate_shares(THRESHOLD, SHARES, wrap_key[1], coeffs)
         IN /\ events' = Append(events, Event("generate_shares", g[1]))
            /\ IF g[1]
               THEN /\ shares' = g[2]
                    /\ issued' = [made |-> TRUE, key |-> hsm.wrap[1], shares |-> g[2]]
                    /\ recorded' = {}
                    /\ pc' = "init_begin"
                    /\ UNCHANGED result
               ELSE /\ Finish("err")
                    /\ UNCHANGED <<shares, issued, recorded>>
    /\ UNCHANGED <<ceremony, runs, hsm, hsm0, files, files0, wrap_key, share_num,
                   screen, displayed, acks, PersLocals, RestLocals, KeyLocals,
                   CaState, tree0, log>>

\* wait_for_line(); clear_screen(); then the first iteration's prompt
InitWaitBegin ==
    /\ pc = "init_begin"
    /\ \/ /\ events' = Append(events, Event("read_line", FALSE))
          /\ Finish("panic")
          /\ UNCHANGED <<screen, share_num>>
       \/ /\ screen' = {}
          /\ UNCHANGED events
          /\ IF Len(shares) = 0
             THEN Finish("ok") /\ UNCHANGED share_num
             ELSE share_num' = 1 /\ pc' = "show_wait1" /\ UNCHANGED result
    /\ UNCHANGED <<ceremony, hsm, files, wrap_key, shares, displayed, acks, recorded,
                   Env, PersLocals, RestLocals, log>>

\* wait_for_line(); println!("\n{}\n", share); println!("When you are done ...");
ShowShare ==
    /\ pc = "show_wait1"
    /\ \/ /\ events' = Append(events, Event("read_line", FALSE))
          /\ Finish("panic")
          /\ UNCHANGED <<screen, displayed, acks, recorded>>
       \/ /\ acks' = acks + 1
          /\ UNCHANGED events
          /\ screen' = screen \cup {share_num}
          /\ displayed' = Append(displayed, share_num)
          /\ recorded' = recorded \cup {shares[share_num]}
          /\ pc' = "show_wait2"
          /\ UNCHANGED result
    /\ UNCHANGED <<ceremony, hsm, files, wrap_key, shares, share_num, Env,
                   PersLocals, RestLocals, log>>

\* ClearShare with the clear_screen() of the loop body left out
ClearShare_NoClear ==
    /\ pc = "show_wait2"
    /\ \/ /\ events' = Append(events, Event("read_line", FALSE))
          /\ Finish("panic")
          /\ UNCHANGED <<screen, share_num, acks>>
       \/ /\ acks' = acks + 1
          /\ UNCHANGED <<events, screen>>
          /\ IF share_num = Len(shares)
             THEN Finish("ok") /\ UNCHANGED share_num
             ELSE share_num' = share_num + 1 /\ pc' = "show_wait1" /\ UNCHANGED result
    /\ UNCHANGED <<ceremony, hsm, files, wrap_key, shares, displayed, recorded,
                   Env, PersLocals, RestLocals, log>>

\* wait_for_line(); clear_screen(); next iteration's prompt, or Ok(())
ClearShare ==
    /\ pc = "show_wait2"
    /\ \/ /\ events' = Append(events, Event("read_line", FALSE))
          /\ Finish("panic")
          /\ UNCHANGED <<screen, share_num, acks>>
       \/ /\ acks' = acks + 1
          /\ UNCHANGED events
          /\ screen' = {}
          /\ IF share_num = Len(shares)
             THEN Finish("ok") /\ UNCHANGED share_num
             ELSE share_num' = share_num + 1 /\ pc' = "show_wait1" /\ UNCHANGED result
    /\ UNCHANGED <<ceremony, hsm, files, wrap_key, shares, displayed, recorded,
                   Env, PersLocals, RestLocals, log>>

----------------------------------------------------------------------------
(* restore, lib.rs 329-369 *)

\* what the operator may type at a share prompt: a share a custodian holds,
\* an empty line or a blank line
InputLines == recorded \cup {EmptyLine, BlankLine}

\* the operator runs `restore` against the device
StartRestore ==
    /\ pc = "idle"
    /\ runs < MaxRuns
    /\ pc' = "rest_prompt"
    /\ ceremony' = "restore"
    /\ runs' = runs + 1
    /\ hsm0' = hsm
    /\ files0' = files
    /\ tree0' = tree
    /\ FreshLocals
    /\ UNCHANGED <<hsm, files, issued, recorded, tree, connectors>>

\* RestPrompt with the loop running over 0..=THRESHOLD
RestPrompt_OffByOne ==
    /\ pc = "rest_prompt"
    /\ prompts' = Append(prompts, Len(entered))
    /\ \/ /\ events' = Append(events, Event("read_line", FALSE))
          /\ Finish("panic")
          /\ UNCHANGED entered
       \/ \E line \in InputLines :
            /\ UNCHANGED events
            /\ entered' = Append(entered, line)
            /\ pc' = IF Len(entered) + 1 >= THRESHOLD + 1 THEN "rest_recover"
                                                            ELSE "rest_prompt"
            /\ UNCHANGED result
    /\ UNCHANGED <<ceremony, hsm, files, wrap_key, recovered, Env, InitLocals,
                   PersLocals, log>>

\* for i in 1..=THRESHOLD { println!("Enter share[{}]: ", i);
\*     shares.push(io::stdin().lines().next().unwrap().unwrap()); }
RestPrompt ==
    /\ pc = "rest_prompt"
    /\ prompts' = Append(prompts, Len(entered) + 1)
    /\ \/ /\ events' = Append(events, Event("read_line", FALSE))
          /\ Finish("panic")
          /\ UNCHANGED entered
       \/ \E line \in InputLines :
            /\ UNCHANGED events
            /\ entered' = Append(entered, line)
            /\ pc' = IF Len(entered) + 1 >= THRESHOLD THEN "rest_recover"
                                                        ELSE "rest_prompt"
            /\ UNCHANGED result
    /\ UNCHANGED <<ceremony, hsm, files, wrap_key, recovered, Env, InitLocals,
                   PersLocals, log>>

\* RestRecover with unwrap_or_default() in place of the exit: a failed
\* recovery yields an empty key and the ceremony goes on
RestRecover_Default ==
    /\ pc = "rest_recover"
    /\ LET r == recover_secret(entered)
       IN /\ recovered' = Append(recovered, entered)
          /\ events' = Append(events, Event("recover_secret", r[1]))
          /\ wrap_key' = <<r[2]>>
          /\ pc' = "rest_put"
          /\ UNCHANGED result
    /\ screen' = {entered[i].x : i \in {j \in 1..Len(entered) : entered[j].text = "share"}}
    /\ Emit(pc' = "rest_put", {Msg("debug", "restored wrap key: {}", Absent,
                                   <<encode_hex(wrap_key'[1])>>)})
    /\ UNCHANGED <<ceremony, hsm, files, shares, share_num, displayed, acks, recorded,
                   entered, prompts, Env, PersLocals>>

\* RestRecover with a retry: a failed recovery asks for the shares again
RestRecover_Retry ==
    /\ pc = "rest_recover"
    /\ LET r == recover_secret(entered)
       IN /\ recovered' = Append(recovered, entered)
          /\ events' = Append(events, Event("recover_secret", r[1]))
          /\ IF r[1] THEN /\ wrap_key' = <<r[2]>>
                          /\ pc' = "rest_put"
                          /\ UNCHANGED <<entered, prompts>>
                     ELSE /\ Len(recovered) < MaxRuns
                          /\ pc' = "rest_prompt"
                          /\ entered' = <<>>
                          /\ prompts' = <<>>
                          /\ UNCHANGED wrap_key
    /\ screen' = {entered[i].x : i \in {j \in 1..Len(entered) : entered[j].text = "share"}}
    /\ Emit(pc' = "rest_put", {Msg("debug", "restored wrap key: {}", Absent,
                                   <<encode_hex(wrap_key'[1])>>)})
    /\ UNCHANGED <<ceremony, result, hsm, files, shares, share_num, displayed, acks,
                   recorded, Env, PersLocals>>

\* for (i, share) in shares.iter().enumerate() { println!(..) }
\* let wrap_key = rusty_secrets::recover_secret(shares)
\*     .unwrap_or_else(|err| { println!(..); std::process::exit(1); });
RestRecover ==
    /\ pc = "rest_recover"
    /\ LET r == recover_secret(entered)
       IN /\ recovered' = Append(recovered, entered)
          /\ events' = Append(events, Event("recover_secret", r[1]))
          /\ IF r[1] THEN /\ wrap_key' = <<r[2]>>
                          /\ pc' = "rest_put"
                          /\ UNCHANGED result
                     ELSE /\ Finish("exit1")
                          /\ UNCHANGED wrap_key
    /\ screen' = {entered[i].x : i \in {j \in 1..Len(entered) : entered[j].text = "share"}}
    /\ Emit(pc' = "rest_put", {Msg("debug", "restored wrap key: {}", Absent,
                                   <<encode_hex(wrap_key'[1])>>)})
    /\ UNCHANGED <<ceremony, hsm, files, shares, share_num, displayed, acks, recorded,
                   entered, prompts, Env, PersLocals>>

\* RestPutWrapKey making room first: an object at ID is deleted, then the
\* recovered key is installed in its place
RestPutWrapKey_Replace ==
    /\ pc = "rest_put"
    /\ \E o \in put_wrap_key([hsm EXCEPT !.wrap = Absent], wrap_key[1]) :
         /\ hsm' = IF o.ok THEN o.hsm ELSE hsm
         /\ events' = Append(events, Event("put_wrap_key", o.ok))
         /\ Emit(o.ok, {Info("wrap id: {}")})
         /\ Finish(IF o.ok THEN "ok" ELSE "err")
    /\ wrap_key' = Absent
    /\ UNCHANGED <<ceremony, files, Env, InitLocals, PersLocals, RestLocals>>

\* let id = client.put_wrap_key(ID, ..., wrap_key).with_context(..)?; Ok(())
\* (wrap_key is moved into the call)
RestPutWrapKey ==
    /\ pc = "rest_put"
    /\ \E o \in put_wrap_key(hsm, wrap_key[1]) :
         /\ hsm' = o.hsm
         /\ events' = Append(events, Event("put_wrap_key", o.ok))
         /\ Emit(o.ok, {Info("wrap id: {}")})
         /\ Finish(IF o.ok THEN "ok" ELSE "err")
    /\ wrap_key' = Absent
    /\ UNCHANGED <<ceremony, files, Env, InitLocals, PersLocals, RestLocals>>

----------------------------------------------------------------------------
(* generate, lib.rs 50-92 *)

\* what generate does not touch while it runs
GenFrame == <<ceremony, runs, hsm0, files0, tree0, issued, doc, wrap_key, InitLocals,
              PersLocals, RestLocals, CaState>>

\* the operator runs `generate` on a key_spec file, with the id of the wrap key
StartGenerate ==
    /\ pc = "idle"
    /\ runs < MaxRuns
    /\ pc' = "gen_parse"
    /\ ceremony' = "generate"
    /\ runs' = runs + 1
    /\ hsm0' = hsm
    /\ files0' = files
    /\ tree0' = tree
    /\ result' = "none"
    /\ events' = <<>>
    /\ \E d \in Docs : doc' = <<d>>
    /\ UNCHANGED <<hsm, files, issued, spec, wrap_key, InitLocals, PersLocals,
                   RestLocals, CaState, log>>

\* let json = fs::read_to_string(key_spec)?;
\* let spec = config::KeySpec::from_str(&json)?;
GenParse ==
    /\ pc = "gen_parse"
    /\ \/ /\ events' = Append(events, Event("read_to_string", FALSE))
          /\ Finish("err")
          /\ UNCHANGED <<spec, log>>
       \/ LET parsed == KeySpecFromStr(doc[1])
          IN /\ events' = Append(events, Event("from_str", parsed[1]))
             /\ Emit(TRUE, {Debug("spec as json: {}")} \cup
                             IF parsed[1] THEN {Debug("KeySpec from {}: {:#?}")} ELSE {})
             /\ IF parsed[1]
                THEN spec' = <<parsed[2]>> /\ pc' = "gen_key" /\ UNCHANGED result
                ELSE Finish("err") /\ UNCHANGED spec
    /\ UNCHANGED <<hsm, files, GenFrame>>

\* GenGenerateKey going on to the export after a failed key generation
GenGenerateKey_Continue ==
    /\ pc = "gen_key"
    /\ \E o \in generate_asymmetric_key(hsm, spec[1]) :
         /\ hsm' = o.hsm
         /\ events' = Append(events, Event("generate_asymmetric_key", o.ok))
         /\ Emit(o.ok, {Debug("new {:#?} key w/ id: {}"),
                        Debug("exporting new asymmetric key under wrap-key w/ id: {}")})
         /\ pc' = "gen_export"
         /\ UNCHANGED result
    /\ UNCHANGED <<files, spec, GenFrame>>

\* let id = client.generate_asymmetric_key(spec.id, spec.label.clone(),
\*     spec.domain, spec.capabilities, spec.algorithm)?;
GenGenerateKey ==
    /\ pc = "gen_key"
    /\ \E o \in generate_asymmetric_key(hsm, spec[1]) :
         /\ hsm' = o.hsm
         /\ events' = Append(events, Event("generate_asymmetric_key", o.ok))
         /\ Emit(o.ok, {Debug("new {:#?} key w/ id: {}"),
                        Debug("exporting new asymmetric key under wrap-key w/ id: {}")})
         /\ IF o.ok THEN pc' = "gen_export" /\ UNCHANGED result
                    ELSE Finish("err")
    /\ UNCHANGED <<files, spec, GenFrame>>

\* GenExport taking the generated key back out of the device when it fails
GenExport_Rollback ==
    /\ pc = "gen_export"
    /\ \E o \in export_wrapped_asym(hsm, spec[1].id) :
         /\ events' = Append(events, Event("export_wrapped", o.ok))
         /\ IF o.ok THEN hsm' = o.hsm /\ pc' = "gen_write" /\ UNCHANGED result
                    ELSE /\ hsm' = [o.hsm EXCEPT
                                      !.asym = {k \in @ : k.id # spec[1].id}]
                         /\ Finish("err")
    /\ UNCHANGED <<files, spec, GenFrame, log>>

\* let msg = client.export_wrapped(wrap_id, Type::AsymmetricKey, id)?;
GenExport ==
    /\ pc = "gen_export"
    /\ \E o \in export_wrapped_asym(hsm, spec[1].id) :
         /\ hsm' = o.hsm
         /\ events' = Append(events, Event("export_wrapped", o.ok))
         /\ IF o.ok THEN pc' = "gen_write" /\ UNCHANGED result
                    ELSE Finish("err")
    /\ UNCHANGED <<files, spec, GenFrame, log>>

\* let msg_json = serde_json::to_string(&msg)?;
\* out_pathbuf.push(format!("{}.json", spec.label));
\* fs::write(out_pathbuf, msg_json)?; Ok(())
GenWrite ==
    /\ pc = "gen_write"
    /\ LET name == JsonFile(LabelToString(spec[1].label))
       IN \/ /\ events' = Append(events, Event("to_string", FALSE))
             /\ Finish("err")
             /\ UNCHANGED <<files, log>>
          \/ /\ events' = Append(events, Event("write", FALSE))
             /\ Emit(TRUE, {Debug("exported asymmetric key: {:#?}"),
                            Debug("writing to: {}")})
             /\ Finish("err")
             /\ UNCHANGED files
          \/ /\ events' = Append(events, Event("write", TRUE))
             /\ files' = [files EXCEPT ![name] = <<WrappedAsym(hsm, spec[1].id)>>]
             /\ Emit(TRUE, {Debug("exported asymmetric key: {:#?}"),
                            Debug("writing to: {}"),
                            Debug("bootstrapping CA files for key with label: {}")})
             /\ Finish("ok")
    /\ UNCHANGED <<hsm, spec, GenFrame>>

----------------------------------------------------------------------------
(* ca_init and bootstrap_ca, lib.rs 164-317 *)

\* what bootstrap_ca creates in the CA directory, in order: the directory,
\* certs, crl, newcerts, private and its mode, index.txt, serial, openssl.cnf
BootstrapSteps == <<"ca_dir", "certs", "crl", "newcerts", "private", "private:0700",
                    "index.txt", "serial", "openssl.cnf">>

\* what ca_init does not touch while it runs
CaFrame == <<ceremony, runs, hsm, hsm0, files, files0, tree0, issued, doc, wrap_key,
             InitLocals, PersLocals, RestLocals>>

\* the operator runs `ca_init` on a key_spec file
StartCaInit ==
    /\ pc = "idle"
    /\ runs < MaxRuns
    /\ pc' = "ca_parse"
    /\ ceremony' = "ca_init"
    /\ runs' = runs + 1
    /\ hsm0' = hsm
    /\ files0' = files
    /\ tree0' = tree
    /\ result' = "none"
    /\ events' = <<>>
    /\ \E d \in Docs : doc' = <<d>>
    /\ UNCHANGED <<hsm, files, issued, spec, wrap_key, InitLocals, PersLocals,
                   RestLocals, CaState, log>>

\* let json = fs::read_to_string(key_spec)?;
\* let spec = config::KeySpec::from_str(&json)?;
CaParse ==
    /\ pc = "ca_parse"
    /\ \/ /\ events' = Append(events, Event("read_to_string", FALSE))
          /\ Finish("err")
          /\ UNCHANGED <<spec, log>>
       \/ LET parsed == KeySpecFromStr(doc[1])
          IN /\ events' = Append(events, Event("from_str", parsed[1]))
             /\ Emit(TRUE, {Debug("spec as json: {}")} \cup
                             IF parsed[1] THEN {Debug("KeySpec from {}: {:#?}")} ELSE {})
             /\ IF parsed[1]
                THEN spec' = <<parsed[2]>> /\ pc' = "ca_bootstrap" /\ UNCHANGED result
                ELSE Finish("err") /\ UNCHANGED spec
    /\ UNCHANGED <<CaFrame, CaState>>

\* the message bootstrap_ca logs before it attempts a step
BootstrapLog(step) ==
    CASE step = "ca_dir" -> {Debug("creating directory: {}")}
      [] step \in {"certs", "crl", "newcerts", "private"} ->
             {Debug("creating directory: {}?")}
      [] step = "private:0700" -> {Debug("setting permissions on directory {} to {:#?}")}
      [] step = "index.txt" -> {Debug("touching file {}")}
      [] step = "serial" -> {Debug("setting initial serial number to {} in file {}")}
      [] OTHER -> {}

\* what ca_init has logged when bootstrap_ca has done n steps and attempted
\* the next one
BootstrapLogs(n) ==
    {Debug("got current directory: {:?}"), Info("bootstrapping CA files in: {}")} \cup
    UNION {BootstrapLog(BootstrapSteps[i]) :
               i \in {j \in 1..Len(BootstrapSteps) : j <= n + 1}}

\* CaBootstrap creating the CA directory as create_dir_all would: an existing
\* directory is accepted and the files are written into it
CaBootstrap_CreateDirAll ==
    /\ pc = "ca_bootstrap"
    /\ LET label == LabelToString(spec[1].label)
       IN \/ /\ events' = Append(events, Event("current_dir", FALSE))
             /\ Finish("err")
             /\ UNCHANGED <<tree, log>>
          \/ \E n \in 0..Len(BootstrapSteps) :
                  /\ tree' = [tree EXCEPT ![label] =
                                  @ \cup {BootstrapSteps[i] : i \in 1..n}]
                  /\ events' = Append(events,
                                      Event("bootstrap_ca", n = Len(BootstrapSteps)))
                  /\ Emit(TRUE, BootstrapLogs(n))
                  /\ IF n = Len(BootstrapSteps)
                     THEN pc' = "ca_spawn" /\ UNCHANGED result
                     ELSE Finish("err")
    /\ UNCHANGED <<CaFrame, spec, connectors, child, cwd>>

\* let pwd = std::env::current_dir()?;
\* bootstrap_ca(&spec, out)?;  -- fs::create_dir(&ca_dir)? fails on a directory
\* that exists; every later step may fail and leaves the earlier ones done
CaBootstrap ==
    /\ pc = "ca_bootstrap"
    /\ LET label == LabelToString(spec[1].label)
       IN \/ /\ events' = Append(events, Event("current_dir", FALSE))
             /\ Finish("err")
             /\ UNCHANGED <<tree, log>>
          \/ /\ tree[label] # {}
             /\ events' = Append(events, Event("bootstrap_ca", FALSE))
             /\ Emit(TRUE, BootstrapLogs(0))
             /\ Finish("err")
             /\ UNCHANGED tree
          \/ /\ tree[label] = {}
             /\ \E n \in 0..Len(BootstrapSteps) :
                  /\ tree' = [tree EXCEPT ![label] = {BootstrapSteps[i] : i \in 1..n}]
                  /\ events' = Append(events,
                                      Event("bootstrap_ca", n = Len(BootstrapSteps)))
                  /\ Emit(TRUE, BootstrapLogs(n))
                  /\ IF n = Len(BootstrapSteps)
                     THEN pc' = "ca_spawn" /\ UNCHANGED result
                     ELSE Finish("err")
    /\ UNCHANGED <<CaFrame, spec, connectors, child, cwd>>

\* std::env::set_current_dir(&ca_dir)?;
\* let mut connector = Command::new("yubihsm-connector").spawn()?;
CaSpawn ==
    /\ pc = "ca_spawn"
    /\ \/ /\ events' = Append(events, Event("set_current_dir", FALSE))
          /\ Finish("err")
          /\ UNCHANGED <<connectors, child, cwd, log>>
       \/ /\ events' = Append(events, Event("spawn", FALSE))
          /\ cwd' = "ca_dir"
          /\ Emit(TRUE, {Debug("setting current directory: {}"),
                         Debug("starting connector")})
          /\ Finish("err")
          /\ UNCHANGED <<connectors, child>>
       \/ /\ events' = Append(events, Event("spawn", TRUE))
          /\ cwd' = "ca_dir"
          /\ connectors' = connectors + 1
          /\ child' = "running"
          /\ Emit(TRUE, {Debug("setting current directory: {}"),
                         Debug("starting connector"), Debug("connector started")})
          /\ pc' = "ca_req"
          /\ UNCHANGED result
    /\ UNCHANGED <<CaFrame, spec, tree>>

\* connector.kill()?: the process is signalled, or the call fails, the
\* process being still alive or gone already
Kill ==
    \/ /\ events' = Append(events, Event("kill", TRUE))
       /\ child' = "killed"
       /\ connectors' = connectors - 1
    \/ /\ events' = Append(events, Event("kill", FALSE))
       /\ \/ UNCHANGED <<child, connectors>>
          \/ child' = "exited" /\ connectors' = connectors - 1

\* one run of the certificate tool: let output = cmd. .. .output()?;
\* if !output.status.success() { connector.kill()?; return Err(SelfCertGenFail) }
\* product is the file the tool writes, next the step after it
Openssl(product, next) ==
    /\ \/ /\ events' = Append(events, Event("output", FALSE))
          /\ Finish("err")
          /\ UNCHANGED <<tree, connectors, child, log>>
       \/ /\ Kill
          /\ Emit(TRUE, {Info("executing command: {:#?}"),
                         Warn("command failed with status: {}"), Warn("stderr: {}")})
          /\ Finish("err")
          /\ UNCHANGED tree
       \/ /\ events' = Append(events, Event("output", TRUE))
          /\ tree' = [tree EXCEPT ![LabelToString(spec[1].label)] = @ \cup {product}]
          /\ Emit(TRUE, {Info("executing command: {:#?}")})
          /\ pc' = next
          /\ UNCHANGED <<result, connectors, child>>
    /\ UNCHANGED <<CaFrame, spec, cwd>>

\* openssl req -config openssl.cnf -new .. -out csr.pem
CaReq ==
    /\ pc = "ca_req"
    /\ Openssl("csr.pem", "ca_sign")

\* openssl ca -batch -selfsign .. -in csr.pem -out certs/ca.cert.pem
CaSign ==
    /\ pc = "ca_sign"
    /\ Openssl("certs/ca.cert.pem", "ca_kill")

\* connector.kill()?;
CaKill ==
    /\ pc = "ca_kill"
    /\ Kill
    /\ IF child' = "killed" THEN pc' = "ca_chdir" /\ UNCHANGED result
                            ELSE Finish("err")
    /\ UNCHANGED <<CaFrame, spec, tree, cwd, log>>

\* std::env::set_current_dir(pwd)?; Ok(())
CaChdir ==
    /\ pc = "ca_chdir"
    /\ \/ /\ events' = Append(events, Event("set_current_dir", FALSE))
          /\ Finish("err")
          /\ UNCHANGED cwd
       \/ /\ events' = Append(events, Event("set_current_dir", TRUE))
          /\ cwd' = "pwd"
          /\ Finish("ok")
    /\ UNCHANGED <<CaFrame, spec, tree, connectors, child, log>>

\* a device after a successful initialize with key k and password p
ProvisionedHsm(k, p) ==
    [default |-> FALSE, auth |-> <<derive_from_password(p)>>, wrap |-> <<k>>,
     asym |-> {}]

\* generate and ca_init start from a device as shipped or as initialize leaves
\* it, with the output directory initialize leaves
InitKeys ==
    /\ pc = "idle"
    /\ ceremony = "none"
    /\ result = "none"
    /\ runs = 0
    /\ hsm \in {FactoryHsm} \cup {ProvisionedHsm(k, p) : k \in Keys, p \in Passwords}
    /\ hsm0 = hsm
    /\ files = IF hsm = FactoryHsm THEN NoFiles
               ELSE [NoFiles EXCEPT ![AdminFile] = <<Wrapped(hsm)>>]
    /\ files0 = files
    /\ wrap_key = Absent
    /\ password = Absent
    /\ residue = {}
    /\ shares = <<>>
    /\ share_num = 0
    /\ screen = {}
    /\ displayed = <<>>
    /\ acks = 0
    /\ entered = <<>>
    /\ prompts = <<>>
    /\ recovered = <<>>
    /\ events = <<>>
    /\ mismatches = 0
    /\ issued = NoIssue
    /\ recorded = {}
    /\ pair = <<>>
    /\ doc = Absent
    /\ spec = Absent
    /\ tree = NoTree
    /\ tree0 = NoTree
    /\ connectors = 0
    /\ child = "none"
    /\ cwd = "pwd"
    /\ log = {}

NextKeys ==
    \/ StartGenerate
    \/ GenParse
    \/ GenGenerateKey
    \/ GenExport
    \/ GenWrite
    \/ StartCaInit
    \/ CaParse
    \/ CaBootstrap
    \/ CaSpawn
    \/ CaReq
    \/ CaSign
    \/ CaKill
    \/ CaChdir
    \/ Return

SpecKeys == InitKeys /\ [][NextKeys]_vars

Next ==
    \/ StartInitialize
    \/ StartRestore
    \/ FactoryReset
    \/ Return
    \/ InitGetRandom
    \/ InitPutWrapKey
    \/ PersPrompt1
    \/ PersPrompt2
    \/ PersPutAuthKey
    \/ PersDeleteDefault
    \/ PersExport
    \/ PersWrite
    \/ InitSplit
    \/ InitWaitBegin
    \/ ShowShare
    \/ ClearShare
    \/ RestPrompt
    \/ RestRecover
    \/ RestPutWrapKey
    \/ StartGenerate
    \/ GenParse
    \/ GenGenerateKey
    \/ GenExport
    \/ GenWrite

Spec == Init /\ [][Next]_vars

----------------------------------------------------------------------------
(* Claims *)

Range(f) == {f[i] : i \in DOMAIN f}

\* the positions of the successful calls of op in the invocation
Done(op) == {i \in 1..Len(events) : events[i] = Event(op, TRUE)}
\* the invocation's last call was op and it failed
FailedAt(op) == Len(events) > 0 /\ events[Len(events)] = Event(op, FALSE)

\* C1: in the rotation run by initialize the factory-default credential is
\* deleted only after the new credential was installed and its wrapped export
\* was written: install, then export, then write, then delete.
C1_DeleteAfterExportWritten ==
    \A d \in Done("delete_object") :
        \E p \in Done("put_authentication_key"), e \in Done("export_wrapped"),
           w \in Done("write") : p < e /\ e < w /\ w < d

\* C2: when a step of the rotation up to and including the write of the
\* export fails (password entry, install, export, serialization, write), the
\* invocation ends in failure and the factory-default credential, present
\* when the rotation began, is still in the inventory.
C2_FailureLeavesDefault ==
    ( /\ ceremony = "initialize"
      /\ pc = "done"
      /\ hsm0.default
      /\ \/ FailedAt("prompt_password")
         \/ FailedAt("put_authentication_key")
         \/ FailedAt("export_wrapped")
         \/ FailedAt("to_string")
         \/ FailedAt("write") )
    => (result \in {"err", "panic"} /\ hsm.default)

\* the rotation has completed: the new credential is installed and its
\* export under the wrap key is the content of admin.json, written in this
\* invocation after the install and the export
RotationCompleted ==
    /\ hsm.auth # Absent
    /\ hsm.wrap # Absent
    /\ files[AdminFile] = <<Wrapped(hsm)>>
    /\ \E p \in Done("put_authentication_key"), e \in Done("export_wrapped"),
          w \in Done("write") : p < e /\ e < w

\* C3: in initialize the rotation has completed before the wrap key is split
\* and before any share is displayed; no share is displayed in an invocation
\* whose rotation did not complete.
C3_RotationBeforeShares ==
    ( /\ ceremony = "initialize"
      /\ \/ shares # <<>>
         \/ displayed # <<>>
         \/ screen # {}
         \/ \E i \in 1..Len(events) : events[i].op = "generate_shares" )
    => ( /\ RotationCompleted
         /\ \A g \in 1..Len(events) :
               events[g].op = "generate_shares" => \E w \in Done("write") : w < g )

C3_Witness ==
    ceremony = "initialize" /\ displayed # <<>> /\ RotationCompleted

\* C4: initialize shows the SHARES shares one at a time in order 1..N: an
\* acknowledgment, exactly that share on screen, a second acknowledgment, the
\* screen cleared; a completed ceremony has displayed every share once, and
\* never are two shares on screen together.
C4_OneShareAtATime ==
    ceremony = "initialize" =>
        /\ Cardinality(screen) <= 1
        /\ displayed = [j \in 1..Len(displayed) |-> j]
        /\ Len(displayed) <= SHARES
        /\ pc = "show_wait1" =>
              /\ screen = {}
              /\ Len(displayed) = share_num - 1
              /\ acks = 2 * (share_num - 1)
        /\ pc = "show_wait2" =>
              /\ screen = {share_num}
              /\ Len(displayed) = share_num
              /\ acks = 2 * share_num - 1
        /\ result = "ok" =>
              /\ screen = {}
              /\ Len(displayed) = SHARES
              /\ acks = 2 * SHARES

C4_Witness ==
    ceremony = "initialize" /\ result = "ok" /\ Len(displayed) = SHARES

\* C5: when a ceremony (initialize or restore) has ended, on any exit path,
\* the wrap-key material it held in memory has been overwritten with zeros.
C5_WrapKeyErased ==
    (pc = "done" /\ ceremony \in {"initialize", "restore"})
    => wrap_key \in {Absent, <<ZeroedBytes>>}

\* C6: when the rotation has returned, with Ok or with an error of a later
\* step, every password buffer it obtained (both entries of every pair,
\* matching or not) has been zeroed.
C6_PasswordsErased ==
    (pc = "done" /\ ceremony = "initialize" /\ result \in {"ok", "err"})
    => (password \in {Absent, <<ZeroedString>>} /\ residue = {})

\* the lines entered in restore are THRESHOLD distinct shares of the ShareSet
EnteredDistinctShares ==
    /\ Len(entered) = THRESHOLD
    /\ \A i \in 1..Len(entered) : entered[i] \in Range(issued.shares)
    /\ \A i, j \in 1..Len(entered) : i # j => entered[i] # entered[j]

\* C7: the ShareSet initialize displays is a THRESHOLD-of-SHARES split of the
\* very bytes it installed as the wrap key, and restore fed any THRESHOLD
\* distinct shares of that ShareSet, in any order, recovers exactly those
\* bytes and installs them as the wrap key.
C7_SplitRecoverRoundTrip ==
    /\ (ceremony = "initialize" /\ shares # <<>>) =>
          /\ Len(shares) = SHARES
          /\ hsm.wrap = <<wrap_key[1]>>
          /\ \E coeffs \in CoeffChoices(THRESHOLD, KEY_LEN) :
                generate_shares(THRESHOLD, SHARES, hsm.wrap[1], coeffs) = <<TRUE, shares>>
    /\ (ceremony = "restore" /\ EnteredDistinctShares /\ Len(recovered) = 1) =>
          /\ Done("recover_secret") # {}
          /\ result # "exit1"
          /\ pc = "rest_put" => wrap_key = <<issued.key>>
          /\ result = "ok" => hsm.wrap = <<issued.key>>

C7_Witness ==
    /\ ceremony = "restore"
    /\ result = "ok"
    /\ EnteredDistinctShares
    /\ entered[1].x > entered[2].x
    /\ hsm.wrap = <<issued.key>>

\* C8: when the THRESHOLD lines entered in restore (each a share of the
\* ShareSet or text that is no share) contain fewer than THRESHOLD distinct
\* shares of the ShareSet, restore reports a recovery failure and exits, and
\* installs no wrap key.
C8_TooFewSharesFail ==
    ( /\ ceremony = "restore"
      /\ Len(recovered) >= 1
      /\ Cardinality(Range(entered) \cap Range(issued.shares)) < THRESHOLD )
    => ( /\ pc = "done"
         /\ result = "exit1"
         /\ FailedAt("recover_secret")
         /\ hsm = hsm0 )

C8_Witness ==
    /\ ceremony = "restore"
    /\ result = "exit1"
    /\ Len(entered) = THRESHOLD
    /\ Range(entered) \subseteq Range(issued.shares)
    /\ Cardinality(Range(entered)) = THRESHOLD - 1

\* C9: restore prompts for exactly THRESHOLD shares, one at a time in order
\* 1..THRESHOLD, and invokes recovery exactly once, only after all the
\* prompts were answered, over exactly the values collected.
C9_ExactlyThresholdPrompts ==
    ceremony = "restore" =>
        /\ prompts = [j \in 1..Len(prompts) |-> j]
        /\ Len(prompts) <= THRESHOLD
        /\ Len(entered) <= Len(prompts)
        /\ Len(prompts) <= Len(entered) + 1
        /\ pc = "rest_prompt" => Len(prompts) = Len(entered)
        /\ Len(recovered) <= 1
        /\ Len(recovered) = 1 =>
              /\ Len(prompts) = THRESHOLD
              /\ Len(entered) = THRESHOLD
              /\ recovered[1] = entered
        /\ (pc = "rest_put" \/ result \in {"ok", "err", "exit1"}) => Len(recovered) = 1

C9_Witness ==
    ceremony = "restore" /\ Len(recovered) = 1 /\ Len(prompts) = THRESHOLD

\* C10: a reconstruction failure in restore ends the invocation there: the
\* process exits, no wrap key is installed, no share is prompted for again
\* and no HSM operation is performed.
C10_RecoveryFailureIsFatal ==
    ( /\ ceremony = "restore"
      /\ \E i \in 1..Len(events) : events[i] = Event("recover_secret", FALSE) )
    => ( /\ pc = "done"
         /\ result = "exit1"
         /\ events = <<Event("recover_secret", FALSE)>>
         /\ Len(prompts) = THRESHOLD
         /\ Len(recovered) = 1
         /\ wrap_key = Absent
         /\ hsm = hsm0 )

C10_Witness ==
    /\ ceremony = "restore"
    /\ result = "exit1"
    /\ hsm0.wrap = Absent
    /\ FailedAt("recover_secret")

----------------------------------------------------------------------------
(* Claims on key specifications, generate and ca_init *)

\* the running invocation is generate or ca_init, on the document d
Reads(d) == ceremony \in {"generate", "ca_init"} /\ doc = <<d>>

\* C11: for every malformed key-specification document (a required field
\* missing, an enum value no variant has, a label longer than LABEL_SIZE, an
\* id that is no u16), KeySpec::from_str returns an error and no KeySpec, and
\* generate / ca_init end with an error after the parse, with no HSM client
\* operation made and no file or directory created.
C11_MalformedRejected ==
    \A d \in MalformedDocs :
        Reads(d) =>
            /\ KeySpecFromStr(d) \in {<<FALSE, NoKeySpec, "BadKeySpec">>,
                                      <<FALSE, NoKeySpec, "BadLabel">>}
            /\ spec = Absent
            /\ hsm = hsm0 /\ files = files0 /\ tree = tree0
            /\ child = "none"
            /\ \A e \in Range(events) : e.op \in {"read_to_string", "from_str"}
            /\ pc \in {"gen_parse", "ca_parse", "done"}
            /\ pc = "done" => result = "err"

\* generate has refused the document with the algorithm "Rsa2048" at the parse
C11_Witness ==
    /\ Reads([JSON_RSA4K EXCEPT !.algorithm = "Rsa2048"])
    /\ ceremony = "generate"
    /\ pc = "done"
    /\ events = <<Event("from_str", FALSE)>>

\* the artifact the running invocation exports to: admin.json for the
\* rotation of initialize, <label>.json for generate
Artifact ==
    IF ceremony = "generate" THEN JsonFile(LabelToString(spec[1].label))
    ELSE AdminFile

\* C12: an artifact file that was in the output directory when the invocation
\* started is never written over: it keeps its content, and an invocation
\* that exports to it ends with an error instead of writing.
C12_NoSilentOverwrite ==
    /\ \A f \in FileNames : files0[f] # Absent => files[f] = files0[f]
    /\ \A i \in DOMAIN events :
          (events[i] = Event("write", TRUE) /\ ceremony \in {"initialize", "generate"})
              => files0[Artifact] = Absent

\* the calls of generate in the order of its code
GenerateOrder == <<"from_str", "generate_asymmetric_key", "export_wrapped", "write">>

\* the key generate asked the device for is in the device
KeyResident == \E k \in hsm.asym : k.id = spec[1].id /\ k.label = spec[1].label

\* C13: generate calls key generation, export under the wrap key and the
\* artifact write in that order and nothing else on the device; when the
\* export, the serialisation or the write fails after the key was generated,
\* generate ends with an error, the generated key is in the HSM and the
\* output directory is as it was.
C13_GenerateNoRollback ==
    ceremony = "generate" =>
        /\ \A i \in DOMAIN events :
              \/ events[i] = Event(GenerateOrder[i], TRUE)
              \/ /\ i = Len(events)
                 /\ events[i].op \in {GenerateOrder[i], "read_to_string", "to_string"}
        /\ (Done("generate_asymmetric_key") # {}
               /\ (FailedAt("export_wrapped") \/ FailedAt("to_string")
                     \/ FailedAt("write")))
              => /\ pc = "done" /\ result = "err"
                 /\ KeyResident
                 /\ hsm.asym # hsm0.asym
                 /\ files = files0

\* generate has failed at the write with the key generated and exported
C13_Witness ==
    /\ ceremony = "generate"
    /\ Done("generate_asymmetric_key") # {}
    /\ Done("export_wrapped") # {}
    /\ FailedAt("write")
    /\ KeyResident

\* C14: in ca_init at most one connector process is alive at any time, and
\* when ca_init has returned after spawning the connector, on whatever path,
\* the connector is no longer running.
C14_ConnectorTerminated ==
    /\ connectors <= 1
    /\ (ceremony = "ca_init" /\ pc = "done" /\ Done("spawn") # {})
          => child # "running"

\* the parse step of the running generate / ca_init is over and the file was read
Parsed == pc \notin {"gen_parse", "ca_parse"} /\ ~FailedAt("read_to_string")

\* C15: every valid key-specification document is parsed and converted, and
\* always to the same KeySpec: Rsa4096 gives RSA-4096 and Ecp384 gives EC-P384,
\* All gives all capabilities, DOM1 gives domain 1, the id, label, common
\* name, hash and purpose are those of the document, the purpose
\* ProductionCodeSigning names the section v3_code_signing_prod, and the five
\* purposes name five different sections.
C15_ConversionTotal ==
    /\ \A d \in ValidDocs :
          Reads(d) =>
            /\ Parsed => spec # Absent
            /\ spec # Absent =>
                 /\ d.algorithm = "Rsa4096"
                       => spec[1].algorithm = "asymmetric::Algorithm::Rsa4096"
                 /\ d.algorithm = "Ecp384"
                       => spec[1].algorithm = "asymmetric::Algorithm::EcP384"
                 /\ spec[1].capabilities = "Capability::all()"
                 /\ spec[1].domain = "Domain::DOM1"
                 /\ spec[1].id = d.id
                 /\ LabelToString(spec[1].label) = d.label.name
                 /\ spec[1].common_name = d.common_name
                 /\ spec[1].hash = d.hash
                 /\ spec[1].purpose = d.purpose
                 /\ d.purpose = "ProductionCodeSigning"
                       => PurposeToString(spec[1].purpose) = "v3_code_signing_prod"
    /\ \A p, q \in Purposes : p # q => PurposeToString(p) # PurposeToString(q)

\* ca_init has parsed JSON_RSA4K into a KeySpec for RSA-4096 whose purpose
\* names v3_code_signing_prod
C15_Witness ==
    /\ Reads(JSON_RSA4K)
    /\ ceremony = "ca_init"
    /\ spec # Absent
    /\ spec[1].algorithm = "asymmetric::Algorithm::Rsa4096"
    /\ PurposeToString(spec[1].purpose) = "v3_code_signing_prod"

\* C16 as stated: a document with a field the schema does not name, all
\* required fields being there with valid values, is refused at the parse
\* and no KeySpec is made from it.
C16_ExtraFieldRejected ==
    \A d \in ExtraFieldDocs :
        Reads(d) => /\ spec = Absent
                    /\ Parsed => pc = "done" /\ result = "err"

\* C16 amended: a document with a field the schema does not name, all
\* required fields being there with valid values, is accepted; the field is
\* ignored and the KeySpec is the one of the document without that field.
C16_ExtraFieldIgnored ==
    \A d \in ExtraFieldDocs :
        Reads(d) =>
            /\ Parsed => spec # Absent
            /\ spec # Absent =>
                 /\ [d EXCEPT !.fields = SchemaFields] \in ValidDocs
                 /\ spec[1].id = d.id
                 /\ spec[1].common_name = d.common_name
                 /\ LabelToString(spec[1].label) = d.label.name
                 /\ spec[1].hash = d.hash
                 /\ spec[1].purpose = d.purpose
                 /\ spec[1].algorithm = "asymmetric::Algorithm::Rsa4096"

\* generate has parsed the document with the extra field and goes on to the device
C16_Witness ==
    /\ \E d \in ExtraFieldDocs : Reads(d)
    /\ ceremony = "generate"
    /\ pc = "gen_key"
    /\ spec # Absent

----------------------------------------------------------------------------
(* Claims on the outcome of initialize, failures, prompts and share input *)

\* C17: when initialize has returned success, the HSM holds the wrap key
\* generated in this invocation and the authentication key derived from the
\* password entered, the factory-default authentication key is gone, the
\* wrapped export of the new authentication key is in the output directory,
\* and the SHARES shares were each displayed and acknowledged, in order.
C17_InitializePostState ==
    (ceremony = "initialize" /\ result = "ok") =>
        /\ hsm0.wrap = Absent /\ hsm.wrap = wrap_key
        /\ Len(wrap_key[1]) = KEY_LEN
        /\ hsm0.auth = Absent /\ hsm.auth = <<derive_from_password(pair[1])>>
        /\ ~hsm.default
        /\ files[AdminFile] = <<Wrapped(hsm)>>
        /\ Len(shares) = SHARES
        /\ displayed = [i \in 1..SHARES |-> i]
        /\ recorded = Range(shares)
        /\ acks = SHARES + SHARES
        /\ screen = {}

\* initialize has returned success
C17_Witness ==
    /\ ceremony = "initialize"
    /\ pc = "done"
    /\ result = "ok"
    /\ Len(displayed) = SHARES

\* the calls made on the HSM client
HsmOps == {"get_pseudo_random", "put_wrap_key", "put_authentication_key",
           "delete_object", "export_wrapped", "generate_asymmetric_key"}

\* C18: in initialize (with its rotation), restore and generate, a failed HSM
\* client call is the last call of the invocation, which ends with an error:
\* no file is written, no shares are split or displayed, and what the
\* earlier calls put into the HSM stays there. A failed randomness request
\* leaves HSM and files as they were; a failed wrap-key install is followed
\* by no password prompt, no rotation and no shares.
C18_FailureAborts ==
    \A i \in DOMAIN events :
        (events[i].op \in HsmOps /\ ~events[i].ok) =>
            /\ i = Len(events)
            /\ pc = "done" /\ result = "err"
            /\ files = files0
            /\ shares = <<>> /\ displayed = <<>> /\ acks = 0
            /\ Done("put_wrap_key") # {} <=> hsm.wrap # hsm0.wrap
            /\ Done("put_wrap_key") # {} => hsm.wrap # Absent
            /\ Done("put_authentication_key") # {} <=> hsm.auth # hsm0.auth
            /\ Done("put_authentication_key") # {} => hsm.auth # Absent
            /\ Done("delete_object") # {} <=> hsm.default # hsm0.default
            /\ Done("generate_asymmetric_key") # {} <=> hsm.asym # hsm0.asym
            /\ FailedAt("get_pseudo_random") => hsm = hsm0
            /\ (FailedAt("put_wrap_key") /\ ceremony = "initialize")
                  => /\ pair = <<>> /\ password = Absent
                     /\ hsm.auth = hsm0.auth /\ hsm.default = hsm0.default

\* initialize has failed at the export, after the new credential was
\* installed and the default one deleted
C18_Witness ==
    /\ ceremony = "initialize"
    /\ FailedAt("export_wrapped")
    /\ Done("put_wrap_key") # {}
    /\ Done("delete_object") # {}
    /\ ~hsm.default

\* the client calls of the rotation
RotationOps == {"put_authentication_key", "delete_object", "export_wrapped"}

\* the last pair of prompts was answered with two different entries
Mismatch == pair # <<>> /\ pair[1] # pair[2]

\* C19: in the rotation the pair of password prompts is repeated as long as
\* the two entries differ and no longer; while the last pair differs no HSM
\* call of the rotation has been made, and the credential installed is
\* derived from the password of a pair whose two entries were equal.
C19_PasswordPairMatches ==
    ceremony = "initialize" =>
        /\ (pc \in {"pers_prompt", "pers_prompt2"} /\ pair # <<>>) => Mismatch
        /\ (Mismatch \/ pc \in {"pers_prompt", "pers_prompt2"})
              => \A e \in Range(events) : e.op \notin RotationOps
        /\ Mismatch => pc \in {"pers_prompt", "pers_prompt2", "done"}
        /\ (\E e \in Range(events) : e.op \in RotationOps)
              => pair # <<>> /\ pair[1] = pair[2]
        /\ pc = "pers_put_auth" => password = <<pair[1]>> /\ pair[1] = pair[2]
        /\ hsm.auth # hsm0.auth
              => hsm.auth = <<derive_from_password(pair[1])>> /\ pair[1] = pair[2]

\* the credential was installed after a mismatching pair and then a matching one
C19_Witness ==
    /\ ceremony = "initialize"
    /\ mismatches > 0
    /\ Done("put_authentication_key") # {}
    /\ hsm.auth = <<derive_from_password(pair[1])>>

\* the lines that are empty or white space only
BlankLines == {EmptyLine, BlankLine}

\* C20: in restore a line that is empty or white space only, entered at a
\* share prompt, is refused as an input error: restore ends with an error
\* before the recovery is called, and no such line is ever in the shares
\* handed to recover_secret.
C20_BlankLineRejected ==
    ceremony = "restore" =>
        /\ \A i \in DOMAIN recovered :
              \A j \in DOMAIN recovered[i] : recovered[i][j] \notin BlankLines
        /\ (\E j \in DOMAIN entered : entered[j] \in BlankLines)
              => /\ pc = "done" /\ result = "err"
                 /\ recovered = <<>>

----------------------------------------------------------------------------
(* Claims on a resident wrap key, diagnostics and the CA tree *)

NormalSeverity == {"info", "warn", "error"}

\* a message that carries the operator password or the wrap-key bytes
Sensitive(m) == m.password # Absent \/ m.key # Absent

\* C22: no diagnostic message of severity info, warn or error carries the
\* operator password or the wrap-key bytes, in any ceremony; a message that
\* carries one of them is a debug message
C22_SecretsOnlyAtDebug ==
    \A m \in log :
        /\ m.level \in NormalSeverity \cup {"debug"}
        /\ m.level \in NormalSeverity => ~Sensitive(m)
        /\ Sensitive(m) => m.level = "debug"

\* an initialize that has logged the key and the password it read, next to
\* messages of normal severity (the password mismatch among them)
C22_Witness ==
    /\ ceremony = "initialize"
    /\ \E m \in log : m.key # Absent
    /\ \E m \in log : m.password # Absent
    /\ \E m \in log : m.level = "info"
    /\ \E m \in log : m.level = "error"
    /\ pc = "done"

\* the CA directory of the running ca_init, <out>/<label>, once the key
\* specification is parsed
CaDir == LabelToString(spec[1].label)

\* the running ca_init found its CA directory in place when it started
ExistingCaTree ==
    /\ ceremony = "ca_init"
    /\ Done("from_str") # {}
    /\ tree0[CaDir] # {}

\* C23: a ca_init whose CA directory <out>/<label> exists already leaves the
\* whole tree as it found it: bootstrap_ca fails at its first step and the
\* invocation ends with an error, no connector is spawned, no certificate-tool
\* command is run and the working directory is not changed
C23_ExistingTreeUntouched ==
    ExistingCaTree =>
        /\ tree = tree0
        /\ child = "none"
        /\ cwd = "pwd"
        /\ \A e \in Range(events) :
               e.op \notin {"spawn", "output", "kill", "set_current_dir"}
        /\ Done("bootstrap_ca") = {}
        /\ pc \in {"ca_bootstrap", "done"}
        /\ pc = "done" => result = "err"

\* a ca_init on a label whose complete CA directory a former ca_init left
\* behind, stopped by bootstrap_ca
C23_Witness ==
    /\ ExistingCaTree
    /\ "openssl.cnf" \in tree0[CaDir]
    /\ FailedAt("bootstrap_ca")
    /\ pc = "done"
    /\ tree = tree0

====
